---- MODULE Spec2Model ----
(***************************************************************************)
(* Model of the Infura node (packages/nodes-base/nodes/Infura): the JSON   *)
(* validator, the ABI introspector behind the option lists, and execute()  *)
(* in the four revisions kept in the repository.                           *)
(*                                                                         *)
(* JSON texts are sequences of tokens.  "[", "]" and "," are the array     *)
(* punctuation, a literal token stands for one scalar or object literal,   *)
(* and every other token is text that starts no JSON value.                *)
(***************************************************************************)
EXTENDS Integers, Sequences, FiniteSets, TLC

VARIABLES
    jsonIn,     \* validateJSON: the argument
    jsonOut,    \* validateJSON: the returned value
    loABI,      \* loadOptions: the contractABI parameter
    loMethod,   \* loadOptions: the contractMethod parameter
    loFilter,   \* loadOptions: the mutability the user wants listed
    loCall,     \* loadOptions: the method that ran
    loOut,      \* loadOptions: its outcome
    rev,        \* execute: the revision of the node that runs
    operation,  \* execute: getNodeParameter('operation', 0)
    ETHNetwork, \* execute: getNodeParameter('ETHNetwork', 0)
    projectID,  \* execute: getNodeParameter('projectID', 0)
    creds,      \* execute: whether the host holds InfuraAPI credentials
    abi,        \* execute: getNodeParameter('contractABI', 0)
    wallet0,    \* execute: getNodeParameter('walletAddress', 0)
    length,     \* execute: items.length
    pc,         \* execute: where the call stands
    i,          \* execute: the loop index
    item,       \* execute: the parameters the host resolved for item i
    local,      \* execute: locals of the item that live across an await
    inflight,   \* execute: requests awaiting their response
    httpLog,    \* execute: every request handed to the transport
    responseData, \* execute: responseData, declared outside the loop
    returnData, \* execute: returnData
    outcome,    \* execute: running, returned or raised, and the error
    hist        \* execute: what happened so far (not program state)

jsonVars == <<jsonIn, jsonOut>>

loVars == <<loABI, loMethod, loFilter, loCall, loOut>>

execVars == <<rev, operation, ETHNetwork, projectID, creds, abi, wallet0, length, pc, i, item, local,
              inflight, httpLog, responseData, returnData, outcome, hist>>

vars == <<jsonIn, jsonOut, loABI, loMethod, loFilter, loCall, loOut,
          rev, operation, ETHNetwork, projectID, creds, abi, wallet0, length,
          pc, i, item, local, inflight, httpLog, responseData, returnData, outcome, hist>>

\* ------------------------------------------------------------------------
\* Bounds
\* ------------------------------------------------------------------------

\* longest JSON text, in tokens, handed to the validator
MaxLen == 4

\* most entries of a contract ABI
MaxABI == 3

\* most input items of one invocation
MaxItems == 2

\* most hexadecimal digits of a numeric RPC result
MaxHexLen == 2

\* ------------------------------------------------------------------------
\* JSON values and texts
\* ------------------------------------------------------------------------

\* the value `undefined`
Undefined == [kind |-> "undefined", atom |-> "", elems |-> <<>>]

\* the value of a literal token
Atom(t) == [kind |-> "atom", atom |-> t, elems |-> <<>>]

\* an array value
Arr(es) == [kind |-> "array", atom |-> "", elems |-> es]

\* object literals of ABI entries; each token is the text of one entry
EntryTokens == {"fooView", "Bar", "setXY", "fooX", "pay"}

\* tokens that are a complete JSON value on their own
Literals == {"1"} \cup EntryTokens

\* the text String(undefined) that JSON.parse sees for an absent argument
UndefinedText == <<"undefined">>

\* an argument of type `string | undefined`
Absent == [present |-> FALSE, text |-> <<>>]

Str(t) == [present |-> TRUE, text |-> t]

\* JSON.parse coerces its argument to a string first
ToText(json) == IF json.present THEN json.text ELSE UndefinedText

ParseFail == [ok |-> FALSE, val |-> Undefined, next |-> 0]

\* F applied to the value of v, with v evaluated once
Bind(v, F(_)) == CHOOSE out \in {F(x) : x \in {v}} : TRUE

RECURSIVE ParseValue(_, _)
RECURSIVE ParseElements(_, _, _)

\* the value starting at token p of s, and the position after it
ParseValue(s, p) ==
    IF p > Len(s) THEN ParseFail
    ELSE IF s[p] \in Literals THEN [ok |-> TRUE, val |-> Atom(s[p]), next |-> p + 1]
    ELSE IF s[p] = "["
         THEN IF p + 1 <= Len(s) /\ s[p + 1] = "]"
              THEN [ok |-> TRUE, val |-> Arr(<<>>), next |-> p + 2]
              ELSE ParseElements(s, p + 1, <<>>)
    ELSE ParseFail

\* the elements of an array whose next element starts at p
ParseElements(s, p, acc) ==
    LET Rest(r) ==
            IF ~r.ok \/ r.next > Len(s) THEN ParseFail
            ELSE IF s[r.next] = "," THEN ParseElements(s, r.next + 1, Append(acc, r.val))
            ELSE IF s[r.next] = "]"
                 THEN [ok |-> TRUE, val |-> Arr(Append(acc, r.val)), next |-> r.next + 1]
            ELSE ParseFail
    IN  Bind(ParseValue(s, p), Rest)

\* JSON.parse: the value of the whole text, or a SyntaxError (ok = FALSE)
JSONParse(s) ==
    LET r == ParseValue(s, 1) IN
    IF r.ok /\ r.next = Len(s) + 1 THEN [ok |-> TRUE, val |-> r.val]
    ELSE [ok |-> FALSE, val |-> Undefined]

\* the exception escaping a validateJSON that has no catch clause
Raised == [kind |-> "exception", atom |-> "SyntaxError", elems |-> <<>>]

validateJSONNoCatch(json) ==
    LET r == JSONParse(ToText(json)) IN IF r.ok THEN r.val ELSE Raised

\* validateJSON: try { result = JSON.parse(json!) } catch { result = undefined }
validateJSON(json) ==
    LET r == JSONParse(ToText(json)) IN IF r.ok THEN r.val ELSE Undefined

\* ------------------------------------------------------------------------
\* The JSON grammar, stated independently of the parser
\* ------------------------------------------------------------------------

RECURSIVE Join(_)
\* the texts of the elements, separated by commas
Join(ts) ==
    IF Len(ts) = 0 THEN <<>>
    ELSE IF Len(ts) = 1 THEN ts[1]
    ELSE ts[1] \o <<",">> \o Join(Tail(ts))

RECURSIVE Ser(_)
\* the text of a value
Ser(v) ==
    IF v.kind = "atom" THEN <<v.atom>>
    ELSE <<"[">> \o Join([k \in 1..Len(v.elems) |-> Ser(v.elems[k])]) \o <<"]">>

SeqsUpTo(S, n) == UNION {[1..k -> S] : k \in 0..n}

RECURSIVE ValuesOfDepth(_, _, _)
\* the values over the literals L nested at most d deep, arrays at most w wide
ValuesOfDepth(L, d, w) ==
    IF d = 0 THEN {Atom(t) : t \in L}
    ELSE LET V == ValuesOfDepth(L, d - 1, w) IN V \cup {Arr(es) : es \in SeqsUpTo(V, w)}

\* tokens the validator is exercised with: punctuation, a literal, garbage
JAlphabet == {"[", "]", ",", "1", "?"}

\* every value whose text has at most MaxLen tokens of JAlphabet
JValues == ValuesOfDepth({"1"}, MaxLen \div 2, MaxLen \div 2)

JTexts == SeqsUpTo(JAlphabet, MaxLen)

NotRun == [kind |-> "notrun", atom |-> "", elems |-> <<>>]

\* ------------------------------------------------------------------------
\* Contract ABIs and the option lists built from them
\* ------------------------------------------------------------------------

\* the fields of the ABI entry a literal token spells out; the number 1 has none
EntryOf(t) ==
    CASE t = "fooView" -> [type |-> "function", name |-> "foo", stateMutability |-> "view",
                           inputs |-> <<>>]
      [] t = "Bar"     -> [type |-> "event", name |-> "Bar", stateMutability |-> "",
                           inputs |-> <<"from">>]
      [] t = "setXY"   -> [type |-> "function", name |-> "set", stateMutability |-> "nonpayable",
                           inputs |-> <<"x", "y">>]
      [] t = "fooX"    -> [type |-> "function", name |-> "foo", stateMutability |-> "pure",
                           inputs |-> <<"x">>]
      [] t = "pay"     -> [type |-> "function", name |-> "pay", stateMutability |-> "payable",
                           inputs |-> <<>>]
      [] OTHER         -> [type |-> "", name |-> "", stateMutability |-> "", inputs |-> <<>>]

\* element.type, element.name, ... of a parsed ABI element; a nested array has none
Element(v) == IF v.kind = "atom" THEN EntryOf(v.atom) ELSE EntryOf("")

\* the texts of the ABIs of at most MaxABI entries, no entry listed twice
ABITexts ==
    {Ser(Arr([k \in 1..Len(es) |-> Atom(es[k])])) :
        es \in {e \in SeqsUpTo(EntryTokens, MaxABI) :
                    \A j, k \in 1..Len(e) : e[j] = e[k] => j = k}}

\* texts that are no JSON
MalformedTexts == {<<>>, <<"[">>, <<"[", "fooView">>, <<"[", "fooView", ",", "]">>, <<"?">>}

\* JSON texts that are no array
ScalarTexts == {<<"1">>, <<"fooView">>}

\* an outcome of a loadOptions method
LoOk(opts) == [status |-> "ok", options |-> opts, error |-> ""]

LoError(e) == [status |-> "error", options |-> <<>>, error |-> e]

RECURSIVE PushFunctions(_, _)
\* json.forEach: push the name of every element whose type is "function"
PushFunctions(elems, options) ==
    IF elems = <<>> THEN options
    ELSE PushFunctions(Tail(elems),
                       IF Element(Head(elems)).type = "function"
                       THEN Append(options, Element(Head(elems)).name)
                       ELSE options)

RECURSIVE PushInputs(_, _, _)
\* json.forEach: push every input name of the function elements called method
PushInputs(elems, method, options) ==
    IF elems = <<>> THEN options
    ELSE PushInputs(Tail(elems), method,
                    IF /\ Element(Head(elems)).type = "function"
                       /\ Element(Head(elems)).name = method
                    THEN options \o Element(Head(elems)).inputs
                    ELSE options)

\* the method listing without the test for undefined: forEach is called on it
getContractMethodsNoCheck(contractABI) ==
    LET json == validateJSON(contractABI) IN
    IF json.kind # "array" THEN LoError("TypeError")
    ELSE LoOk(PushFunctions(json.elems, <<>>))

\* getContractMethods: the option list, 'Invalid JSON', or the TypeError of
\* calling forEach on a value that is no array
getContractMethods(contractABI) ==
    LET json == validateJSON(contractABI) IN
    IF json = Undefined THEN LoError("Invalid JSON")
    ELSE IF json.kind # "array" THEN LoError("TypeError")
    ELSE LoOk(PushFunctions(json.elems, <<>>))

\* the input listing that stops after the first input of the method
getContractInputsFirstOnly(contractABI, method) ==
    LET json == validateJSON(contractABI) IN
    IF json = Undefined THEN LoError("Invalid JSON")
    ELSE IF json.kind # "array" THEN LoError("TypeError")
    ELSE LET all == PushInputs(json.elems, method, <<>>) IN
         LoOk(IF all = <<>> THEN <<>> ELSE <<all[1]>>)

\* getContractInputs: the same for the inputs of the chosen method
getContractInputs(contractABI, method) ==
    LET json == validateJSON(contractABI) IN
    IF json = Undefined THEN LoError("Invalid JSON")
    ELSE IF json.kind # "array" THEN LoError("TypeError")
    ELSE LoOk(PushInputs(json.elems, method, <<>>))

\* the mutability categories a listing can be asked for
Filters == {"none", "view", "nonpayable", "payable"}

\* the category of a stateMutability tag: pure and view are one category
Category(m) == IF m \in {"pure", "view"} THEN "view" ELSE m

MethodNames == {"foo", "set", "pay", "missing"}


\* ------------------------------------------------------------------------
\* execute(): revisions, parameters, errors, values
\* ------------------------------------------------------------------------

\* rev1: unnamed/part_001:542-887 with the helpers of unnamed/part_000:1-124
\* rev2: Infura.node.ts with GenericFunctions.ts
\* rev3: unnamed/part_002 with the helpers of unnamed/part_000:125-213
\* rev4: unnamed/part_001:1-541, on the ethers provider
Revs == {"rev1", "rev2", "rev3", "rev4"}

\* the operations a revision offers in its 'operation' options
OpsOf(r) ==
    IF r = "rev1" THEN {"eth_call", "eth_sendRawTransaction"}
    ELSE {"eth_blockNumber", "eth_getBlockByNumber", "eth_call",
          "eth_sendRawTransaction", "eth_getTransactionCount"}
         \cup (IF r = "rev4" THEN {"eth_estimateGas"} ELSE {})

Err(kind, message, cause) == [kind |-> kind, message |-> message, cause |-> cause]

NoError == Err("", "", "")

\* throw new Error('Invalid JSON')
InvalidJSON == Err("Error", "Invalid JSON", "")

\* throw new NodeOperationError(this.getNode(), 'No credentials got returned!')
NoCredentials == Err("NodeOperationError", "No credentials got returned!", "")

\* throw new NodeApiError(this.getNode(), error): error is kept as the cause
NodeApiError(e) == Err("NodeApiError", e.message, e.kind)

\* the rejection of a request that failed in the transport or the provider
TransportError == Err("RequestError", "request failed", "")

\* what ethers throws on a malformed private key or mnemonic
SigningError == Err("EthersSigningError", "invalid key or mnemonic", "")

\* what ethers throws on an ABI, a method or arguments it cannot use
EthersError(m) == Err("EthersError", m, "")

\* calling something that is no function, spreading something not iterable
TypeError == Err("TypeError", "not a function or not iterable", "")

\* values that end up in records
Val(t, n, s) == [t |-> t, n |-> n, s |-> s]

Num(n) == Val("num", n, "")

NaN == Val("nan", 0, "")

Null == Val("null", 0, "")

Undef == Val("undef", 0, "")

Obj(s) == Val("obj", 0, s)

\* one record of the output; item tells which input item produced it
Rec(k, key, v) == [item |-> k, key |-> key, val |-> v]

\* a responseData that is one object, and one that is an array
Single(r) == [isArray |-> FALSE, elems |-> <<r>>]

Many(rs) == [isArray |-> TRUE, elems |-> rs]

\* hexadecimal digits of numeric results, and their values
HexDigits == {"1", "a"}

HexValue(d) == CASE d = "0" -> 0 [] d = "1" -> 1 [] d = "2" -> 2 [] d = "a" -> 10
                 [] d = "f" -> 15 [] OTHER -> -1

\* the results "0x10" and "0x2a", without their 0x prefix
HexExamples == {<<"1", "0">>, <<"2", "a">>}

\* the digit strings a node may answer with, without their 0x prefix: every
\* string over HexDigits and the two examples, of at most MaxHexLen digits
HexStrings ==
    UNION {[1..k -> HexDigits] : k \in 1..MaxHexLen}
        \cup {h \in HexExamples : Len(h) <= MaxHexLen}

RECURSIVE ParseDec(_, _)
\* the digits read in radix 10
ParseDec(ds, acc) ==
    IF ds = <<>> THEN acc ELSE ParseDec(Tail(ds), acc * 10 + HexValue(Head(ds)))

RECURSIVE ParseHex(_, _)
\* parseInt(s, 16) after the 0x prefix: digits accumulate left to right
ParseHex(ds, acc) ==
    IF ds = <<>> THEN acc ELSE ParseHex(Tail(ds), acc * 16 + HexValue(Head(ds)))

\* a response body: {result}, {error} without a result, or an array of n objects
Body(kind, hex, n) == [kind |-> kind, hex |-> hex, n |-> n]

ResultBody(hex) == Body("result", hex, 0)

ErrorBody == Body("error", <<>>, 0)

ArrayBody(n) == Body("array", <<>>, n)

\* parseInt(response.result, 16): NaN when the body has no result
parseInt16(body) == IF body.kind = "result" THEN Num(ParseHex(body.hex, 0)) ELSE NaN

\* the parameters the host resolves for one item
ItemParams(method, inputs, mnemonic, walletOK, address, tag, block, details) ==
    [contractMethod |-> method, contractInputs |-> inputs,
     accessWalletByMnemonic |-> mnemonic, walletOK |-> walletOK,
     walletAddress |-> address, transactionTag |-> tag,
     blockNumber |-> block, showTransactionDetails |-> details]

NoItem == ItemParams("", Str(<<>>), FALSE, TRUE, "", "", "", "")

Addresses == {"0xA", "0xB"}

Tags == {"latest", "pending"}

Blocks == {"100"}

\* contractInputs: the default '', [], [1,1], a malformed text, a scalar
InputTexts == {<<>>, <<"[", "]">>, <<"[", "1", ",", "1", "]">>, <<"[">>, <<"1">>}

ContractMethods == {"foo", "set", "missing"}

\* contractABI: [foo() view, set(x,y)], overloaded foo, malformed, '', no array
ExecABITexts == {<<"[", "fooView", ",", "setXY", "]">>, <<"[", "fooView", ",", "fooX", "]">>,
                 <<"[", "fooView">>, <<>>, <<"fooView">>}

\* the encoded call of a method with n arguments
CallData(m, n) == [method |-> m, nargs |-> n]

NoData == CallData("", 0)

\* the transaction handed to wallet.signTransaction, and its signed form
Tx(signer, nonce, data, to) == [signer |-> signer, nonce |-> nonce, data |-> data, to |-> to]

NoTx == Tx("", Undef, NoData, "")

\* the networks of the ETHNetwork options the model draws from
Networks == {"mainnet", "goerli"}

ProjectIDs == {"p1", "p2"}

\* credentials.projectSecret
projectSecret == "projectSecret"

\* the endpoint with the project secret appended to it
UriWithSecret(network, project) ==
    <<"https://", network, ".infura.io/v3/", project, projectSecret>>

\* the endpoint with the main network written into it
UriOfMainNet(network, project) == <<"https://", "mainnet", ".infura.io/v3/", project>>

\* the template `https://${ETHNetwork}.infura.io/v3/${ProjectID}`, piece by piece
Uri(network, project) == <<"https://", network, ".infura.io/v3/", project>>

\* what the params array of a request holds, or the arguments of a provider call
ParamsOf(via, rpc) ==
    IF via = "provider"
    THEN CASE rpc = "eth_getBlockByNumber" -> <<"blockNumber">>
           [] rpc = "eth_getTransactionCount" -> <<"walletAddress", "transactionTag">>
           [] OTHER -> <<>>
    ELSE CASE rpc = "eth_blockNumber" -> <<>>
           [] rpc = "eth_getBlockByNumber" -> <<"blockNumber", "showTransactionDetails">>
           [] rpc = "eth_call" -> <<"{to, from, data}", "latest">>
           [] rpc = "eth_sendRawTransaction" -> <<"signedTransaction">>
           [] OTHER -> <<"address", "tag">>

\* one request as the transport or the provider sees it.  via is the helper
\* that sent it, auth how the project secret travels; pushed and pending are
\* the items appended and the requests outstanding when it is sent.  A
\* provider call has no envelope of its own; its endpoint is the one the
\* provider was built for.
Request(k, via, rpc, auth, address, tag, block, details, data, tx) ==
    [item |-> k, via |-> via, rpc |-> rpc, auth |-> auth,
     verb |-> IF via = "provider" THEN "" ELSE "POST",
     uri |-> Uri(ETHNetwork, projectID),
     id |-> IF via = "provider" THEN 0 ELSE 1,
     jsonrpc |-> IF via = "provider" THEN "" ELSE "2.0",
     params |-> ParamsOf(via, rpc),
     secret |-> IF auth = "none" THEN "" ELSE projectSecret,
     address |-> address, tag |-> tag, block |-> block, details |-> details,
     data |-> data, tx |-> tx,
     pushed |-> 0, pending |-> 0]

\* the request as logged when it is sent with fl outstanding and history h
Stamp(req, fl, h) == [req EXCEPT !.pushed = h.pushed, !.pending = Cardinality(fl)]

\* ------------------------------------------------------------------------
\* execute(): the helpers of GenericFunctions and the ethers calls
\* ------------------------------------------------------------------------

\* whether the helper calls getCredentials and throws when it returns nothing
ChecksCredentials(via) ==
    via \in {"ethBlockNumber", "ethGetBlockByNumber", "ethCallRequest@2",
             "ethSendRawTransaction@2", "ethGetTransactionCount",
             "infuraApiRequest", "getNonce"}

\* whether the helper's catch clause wraps what it caught in a NodeApiError
WrapsErrors(via) == via = "infuraApiRequest"

\* how the helper passes the project secret
AuthOf(via) ==
    IF via \in {"ethCallRequest@1", "ethSendRawTransaction@1"} THEN "none"
    ELSE IF via \in {"infuraApiRequest", "getNonce"} THEN "basic"
    ELSE IF via = "provider" THEN "provider"
    ELSE "header"

\* the error leaving the helper as it was caught
ThrownAsCaught(via, e) == e

\* the error as it leaves the helper
Thrown(via, e) == IF WrapsErrors(via) THEN NodeApiError(e) ELSE e

\* the helper a revision uses for an RPC method
HelperOf(r, rpc) ==
    CASE r = "rev1" -> IF rpc = "eth_call" THEN "ethCallRequest@1" ELSE "ethSendRawTransaction@1"
      [] r = "rev2" -> CASE rpc = "eth_blockNumber" -> "ethBlockNumber"
                         [] rpc = "eth_getBlockByNumber" -> "ethGetBlockByNumber"
                         [] rpc = "eth_call" -> "ethCallRequest@2"
                         [] rpc = "eth_sendRawTransaction" -> "ethSendRawTransaction@2"
                         [] OTHER -> "ethGetTransactionCount"
      [] r = "rev3" -> "infuraApiRequest"
      [] OTHER -> "provider"

\* the count without the default for absent values
ArgCountNoDefault(v) == IF v.kind = "array" THEN Len(v.elems) ELSE -1

\* validateJSON(contractInputs) as encodeFunctionData counts it: values || []
\* is no argument for undefined, and a scalar has no length at all
ArgCount(v) ==
    IF v = Undefined THEN 0 ELSE IF v.kind = "array" THEN Len(v.elems) ELSE -1

\* the positions of the function entries of a parsed ABI named m
FunctionsNamed(json, m) ==
    {k \in 1..Len(json.elems) :
        Element(json.elems[k]).type = "function" /\ Element(json.elems[k]).name = m}

Prepared(data) == [ok |-> TRUE, data |-> data, error |-> NoError]

Failed(e) == [ok |-> FALSE, data |-> NoData, error |-> e]

\* new Interface(ABIjson) and iface.encodeFunctionData(method, values), or in
\* rev4 new Contract(...) and contract[method](...inputs) up to the request
Encode(r, json, method, inputs) ==
    LET fs == FunctionsNamed(json, method)
        n  == ArgCount(inputs)
    IN  IF json.kind # "array" THEN Failed(TypeError)
        ELSE IF Cardinality(fs) # 1
             THEN Failed(IF r = "rev4" THEN TypeError ELSE EthersError("no single matching function"))
        ELSE IF n = -1
             THEN Failed(IF r = "rev4" THEN TypeError ELSE EthersError("types/values length mismatch"))
        ELSE IF n # Len(Element(json.elems[CHOOSE k \in fs : TRUE]).inputs)
             THEN Failed(EthersError("types/values length mismatch"))
        ELSE Prepared(CallData(method, n))

\* the call preparation with the 'Invalid JSON' check left out
CallPrepNoCheck(r, contractABI, p) ==
    Encode(r, validateJSON(contractABI), p.contractMethod, validateJSON(p.contractInputs))

\* eth_call up to its request: the ABI is validated, then the call is encoded
CallPrep(r, contractABI, p) ==
    LET Checked(ABIjson) ==
            IF ABIjson = Undefined THEN Failed(InvalidJSON)
            ELSE Encode(r, ABIjson, p.contractMethod, validateJSON(p.contractInputs))
    IN  Bind(validateJSON(contractABI), Checked)

\* the preparation with the error of the wallet wrapped as a request error
SendPrepWrapped(r, contractABI, p) ==
    IF ~p.walletOK THEN Failed(NodeApiError(SigningError)) ELSE CallPrep(r, contractABI, p)

\* eth_sendRawTransaction up to its first request: the wallet comes first
SendPrep(r, contractABI, p) ==
    IF ~p.walletOK THEN Failed(SigningError) ELSE CallPrep(r, contractABI, p)

\* the wallet built from the mnemonic or from the private key
SignerOf(p) == IF p.accessWalletByMnemonic THEN "mnemonicWallet" ELSE "keyWallet"

\* wallet.signTransaction(tx): a transaction with a numeric nonce is signed;
\* what the library does with any other nonce is not fixed by the sources
SignOutcomes(tx) == IF tx.nonce.t = "num" THEN {"signed"} ELSE {"signed", "throws"}

\* the parameters a revision reads for an item of an operation
ItemChoices(r, op, k) ==
    LET addrs == IF k = 0 THEN {wallet0} ELSE Addresses IN
    CASE op \in {"eth_blockNumber", "eth_estimateGas"} -> {NoItem}
      [] op = "eth_getBlockByNumber" ->
            {ItemParams("", Str(<<>>), FALSE, TRUE, "", "", b, d) :
                b \in Blocks, d \in IF r = "rev4" THEN {""} ELSE {"true", "false"}}
      [] op = "eth_getTransactionCount" ->
            {ItemParams("", Str(<<>>), FALSE, TRUE, a, t, "", "") :
                a \in addrs, t \in IF r = "rev2" THEN {""} ELSE Tags}
      [] op = "eth_call" ->
            {ItemParams(m, Str(t), FALSE, TRUE, a, "", "", "") :
                m \in ContractMethods, t \in InputTexts,
                a \in IF r = "rev3" THEN addrs ELSE {""}}
      [] OTHER ->
            {ItemParams(m, Str(t), mn, ok, "", "", "", "") :
                m \in ContractMethods, t \in InputTexts, mn \in BOOLEAN, ok \in BOOLEAN}

NoLocal == [data |-> NoData, signer |-> ""]

\* no response has arrived
NoAnswer == [item |-> -1, body |-> Body("none", <<>>, 0)]

InitHist == [started |-> 0, pushed |-> 0, assigned |-> <<>>, readCreds |-> FALSE,
             failure |-> "", failedAt |-> 0, answer |-> NoAnswer]

\* returnData.push(responseData) or push.apply(returnData, responseData)
\* without the Array.isArray branch: an array becomes one nested record
PushNested(rd, data, k) ==
    IF data.isArray THEN Append(rd, Rec(k, "nested", Val("array", Len(data.elems), "")))
    ELSE Append(rd, Rec(k, data.elems[1].key, data.elems[1].val))

\* if (Array.isArray(responseData)) push.apply(...) else push(...)
Push(rd, data, k) ==
    rd \o [j \in 1..Len(data.elems) |-> Rec(k, data.elems[j].key, data.elems[j].val)]

\* an error recorded while the loop goes on with the next item
RaiseAndContinue(e, fl, h) ==
    /\ pc' = IF pc = "init" THEN "done" ELSE "loop"
    /\ outcome' = [status |-> "raised", error |-> e]
    /\ inflight' = fl
    /\ hist' = h
    /\ i' = i + 1
    /\ UNCHANGED <<httpLog, returnData, responseData, local>>

\* a throw that leaves execute: the promise of execute is rejected with e
Raise(e, fl, h) ==
    /\ pc' = "done"
    /\ outcome' = [status |-> "raised", error |-> e]
    /\ inflight' = fl
    /\ hist' = h
    /\ UNCHANGED <<i, httpLog, returnData, responseData, local>>

\* a request handed over whose response the loop does not wait for
IssueNoAwait(req, loc, fl, h) ==
    /\ pc' = "loop"
    /\ inflight' = fl \cup {Stamp(req, fl, h)}
    /\ httpLog' = Append(httpLog, Stamp(req, fl, h))
    /\ local' = loc
    /\ hist' = h
    /\ UNCHANGED <<i, outcome, returnData, responseData>>

\* await this.helpers.request(options), or the provider call: the request is
\* handed over and execute is suspended
Issue(req, loc, fl, h) ==
    /\ pc' = "await"
    /\ inflight' = fl \cup {Stamp(req, fl, h)}
    /\ httpLog' = Append(httpLog, Stamp(req, fl, h))
    /\ local' = loc
    /\ hist' = h
    /\ UNCHANGED <<i, outcome, returnData, responseData>>

\* a helper call: the credentials check where the helper has one, then the request
Send(req, loc, fl, h) ==
    IF ChecksCredentials(req.via)
    THEN IF creds THEN Issue(req, loc, fl, [h EXCEPT !.readCreds = TRUE])
         ELSE Raise(Thrown(req.via, NoCredentials), fl, [h EXCEPT !.readCreds = TRUE])
    ELSE Issue(req, loc, fl, h)

\* the end of an iteration that appends the responseData of the iteration before
FinishStale(data, fl, h) ==
    /\ responseData' = data
    /\ returnData' = Push(returnData, responseData, i)
    /\ i' = i + 1
    /\ pc' = "loop"
    /\ inflight' = fl
    /\ local' = NoLocal
    /\ hist' = [h EXCEPT !.pushed = @ + 1, !.assigned = Append(@, data)]
    /\ UNCHANGED <<httpLog, outcome>>

\* the end of an iteration: responseData is set and appended, i++
Finish(data, fl, h) ==
    /\ responseData' = data
    /\ returnData' = Push(returnData, data, i)
    /\ i' = i + 1
    /\ pc' = "loop"
    /\ inflight' = fl
    /\ local' = NoLocal
    /\ hist' = [h EXCEPT !.pushed = @ + 1, !.assigned = Append(@, data)]
    /\ UNCHANGED <<httpLog, outcome>>

\* ------------------------------------------------------------------------
\* Initial conditions
\* ------------------------------------------------------------------------

ExecIdle ==
    /\ rev = "rev2"
    /\ operation = "eth_blockNumber"
    /\ ETHNetwork = "mainnet"
    /\ projectID = "p1"
    /\ creds = TRUE
    /\ abi = Absent
    /\ wallet0 = "0xA"
    /\ length = 0
    /\ pc = "idle"
    /\ i = 0
    /\ item = NoItem
    /\ local = NoLocal
    /\ inflight = {}
    /\ httpLog = <<>>
    /\ responseData = Single([key |-> "", val |-> Undef])
    /\ returnData = <<>>
    /\ outcome = [status |-> "running", error |-> NoError]
    /\ hist = InitHist


\* ------------------------------------------------------------------------
\* Specification of the validator alone
\* ------------------------------------------------------------------------

\* nothing was validated and nothing will be
JSONIdle ==
    /\ jsonIn = Absent
    /\ jsonOut = NotRun

\* no option list was asked for
LoadIdle ==
    /\ loABI = Absent
    /\ loMethod = ""
    /\ loFilter = "none"
    /\ loCall = "none"
    /\ loOut = [status |-> "none", options |-> <<>>, error |-> ""]

InitJSON ==
    /\ jsonIn \in {Absent} \cup {Str(t) : t \in JTexts}
    /\ jsonOut = NotRun
    /\ LoadIdle
    /\ ExecIdle

\* one call of validateJSON on the drawn argument
Validate ==
    /\ jsonOut = NotRun
    /\ jsonOut' = validateJSON(jsonIn)
    /\ UNCHANGED <<jsonIn, loVars, execVars>>

NextJSON == Validate

SpecJSON == InitJSON /\ [][NextJSON]_vars

\* C1: validateJSON is total and never raises: on a syntactically valid JSON
\* text it returns the value the grammar gives that text, and on every other
\* argument (malformed, empty, absent) it returns undefined.
C1_ValidateJSONTotal ==
    jsonOut # NotRun =>
        LET vs == {v \in JValues : jsonIn.present /\ Ser(v) = jsonIn.text} IN
        /\ jsonOut # Raised
        /\ (vs # {} => jsonOut \in vs)
        /\ (vs = {} => jsonOut = Undefined)

\* a nested array was validated and came back as a value
C1_Witness ==
    /\ jsonIn.present
    /\ jsonIn.text = <<"[", "[", "]", "]">>
    /\ jsonOut = Arr(<<Arr(<<>>)>>)

\* malformed and absent arguments were validated
C1_WitnessMalformed ==
    /\ jsonOut = Undefined
    /\ jsonIn.present
    /\ jsonIn.text = <<"[", "1", ",", "]">>


\* ------------------------------------------------------------------------
\* Specification of the option lists alone
\* ------------------------------------------------------------------------

InitLoad ==
    /\ JSONIdle
    /\ loABI \in {Absent} \cup {Str(t) : t \in ABITexts \cup MalformedTexts \cup ScalarTexts}
    /\ loMethod \in MethodNames
    /\ loFilter \in Filters
    /\ loCall = "none"
    /\ loOut = [status |-> "none", options |-> <<>>, error |-> ""]
    /\ ExecIdle

\* the host asks for the method list
GetContractMethods ==
    /\ loCall = "none"
    /\ loCall' = "getContractMethods"
    /\ loOut' = getContractMethods(loABI)
    /\ UNCHANGED <<loABI, loMethod, loFilter, jsonVars, execVars>>

\* the host asks for the input list of loMethod
GetContractInputs ==
    /\ loCall = "none"
    /\ loCall' = "getContractInputs"
    /\ loOut' = getContractInputs(loABI, loMethod)
    /\ UNCHANGED <<loABI, loMethod, loFilter, jsonVars, execVars>>

NextLoad == GetContractMethods \/ GetContractInputs

SpecLoad == InitLoad /\ [][NextLoad]_vars

\* the parsed ABI of the listing, as a sequence of entries
LoEntries == LET json == JSONParse(ToText(loABI)).val IN
             [k \in 1..Len(json.elems) |-> Element(json.elems[k])]

\* the positions of the function entries of the listing's ABI that f admits
LoAdmitted(f) ==
    {k \in 1..Len(LoEntries) :
        /\ LoEntries[k].type = "function"
        /\ (f = "none" \/ Category(LoEntries[k].stateMutability) = f)}

\* opts lists the names found at the positions P, each once, by first position
ListsDistinct(opts, P) ==
    /\ {opts[j] : j \in 1..Len(opts)} = {LoEntries[k].name : k \in P}
    /\ \A j1, j2 \in 1..Len(opts) : opts[j1] = opts[j2] => j1 = j2
    /\ \A j1, j2 \in 1..Len(opts) :
          j1 < j2 =>
             \E k1 \in P : /\ LoEntries[k1].name = opts[j1]
                           /\ \A k2 \in P : LoEntries[k2].name = opts[j2] => k1 < k2

\* C9: the method listing with no filter returns the distinct names of the
\* entries of kind "function", in ABI order, and no name of another entry.
C9_DistinctFunctionNames ==
    (loCall = "getContractMethods" /\ loOut.status = "ok" /\ loFilter = "none") =>
        ListsDistinct(loOut.options, LoAdmitted("none"))

\* C10: the method listing with a mutability filter returns only the
\* function entries whose stateMutability falls in the filter's category.
C10_FilteredFunctionNames ==
    (loCall = "getContractMethods" /\ loOut.status = "ok" /\ loFilter # "none") =>
        ListsDistinct(loOut.options, LoAdmitted(loFilter))

\* ------------------------------------------------------------------------
\* Specification of execute()
\* ------------------------------------------------------------------------

Init ==
    /\ JSONIdle
    /\ LoadIdle
    /\ rev \in Revs
    /\ operation \in OpsOf(rev)
    /\ ETHNetwork \in Networks
    /\ projectID \in ProjectIDs
    /\ (projectID = "p1") = (ETHNetwork = "mainnet")   \* a project of its own per network
    /\ creds \in BOOLEAN
    /\ abi \in IF operation \in {"eth_call", "eth_sendRawTransaction"}
               THEN {Str(t) : t \in ExecABITexts}
               ELSE {Str(<<>>)}
    /\ wallet0 \in IF \/ operation = "eth_getTransactionCount"
                      \/ operation = "eth_call" /\ rev # "rev4"
                      \/ operation = "eth_sendRawTransaction" /\ rev \in {"rev2", "rev3"}
                   THEN Addresses
                   ELSE {"0xA"}
    /\ length \in 0..MaxItems
    /\ pc = "init"
    /\ i = 0
    /\ item = NoItem
    /\ local = NoLocal
    /\ inflight = {}
    /\ httpLog = <<>>
    /\ responseData = Single([key |-> "", val |-> Undef])
    /\ returnData = <<>>
    /\ outcome = [status |-> "running", error |-> NoError]
    /\ hist = InitHist

fixed == <<jsonVars, loVars, rev, operation, ETHNetwork, projectID, creds, abi, wallet0, length>>

\* an item is about to be processed, whatever the operation read before the loop
AtItemAnyOperation(op) == pc = "loop" /\ i < length

\* an item of the loop is about to be processed
AtItem(op) == pc = "loop" /\ i < length /\ operation = op

\* the step that starts item i, with the parameters p the host resolves
Begin(p) ==
    /\ item' = p
    /\ UNCHANGED fixed

Started == [hist EXCEPT !.started = @ + 1]

\* execute up to the loop with the credentials resolved there in every revision
ExecuteEager ==
    /\ pc = "init"
    /\ IF creds
       THEN /\ pc' = "loop"
            /\ hist' = [hist EXCEPT !.readCreds = TRUE]
            /\ UNCHANGED <<i, inflight, httpLog, returnData, responseData, local, outcome>>
       ELSE Raise(NodeApiError(NoCredentials), inflight, [hist EXCEPT !.readCreds = TRUE])
    /\ UNCHANGED <<item, fixed>>

\* execute up to the loop: rev4 resolves the credentials and builds the provider
Execute ==
    /\ pc = "init"
    /\ IF rev = "rev4"
       THEN IF creds
            THEN /\ pc' = "loop"
                 /\ hist' = [hist EXCEPT !.readCreds = TRUE]
                 /\ UNCHANGED <<i, inflight, httpLog, returnData, responseData, local, outcome>>
            ELSE Raise(NodeApiError(NoCredentials), inflight, [hist EXCEPT !.readCreds = TRUE])
       ELSE /\ pc' = "loop"
            /\ UNCHANGED <<i, inflight, httpLog, returnData, responseData, local, outcome, hist>>
    /\ UNCHANGED <<item, fixed>>

\* a return that waits for one item more than there are
ReturnOffByOne ==
    /\ pc = "loop"
    /\ i > length
    /\ pc' = "done"
    /\ outcome' = [status |-> "returned", error |-> NoError]
    /\ UNCHANGED <<i, item, inflight, httpLog, returnData, responseData, local, hist, fixed>>

\* return [this.helpers.returnJsonArray(returnData)]
Return ==
    /\ pc = "loop"
    /\ i >= length
    /\ pc' = "done"
    /\ outcome' = [status |-> "returned", error |-> NoError]
    /\ UNCHANGED <<i, item, inflight, httpLog, returnData, responseData, local, hist, fixed>>

StartBlockNumber ==
    /\ AtItem("eth_blockNumber")
    /\ Begin(NoItem)
    /\ Send(Request(i, HelperOf(rev, "eth_blockNumber"), "eth_blockNumber",
                    AuthOf(HelperOf(rev, "eth_blockNumber")), "", "", "", "", NoData, NoTx),
            NoLocal, inflight, Started)

StartGetBlockByNumber ==
    /\ AtItem("eth_getBlockByNumber")
    /\ \E p \in ItemChoices(rev, operation, i) :
          /\ Begin(p)
          /\ Send(Request(i, HelperOf(rev, "eth_getBlockByNumber"), "eth_getBlockByNumber",
                          AuthOf(HelperOf(rev, "eth_getBlockByNumber")), "", "",
                          p.blockNumber, p.showTransactionDetails, NoData, NoTx),
                  NoLocal, inflight, Started)

StartCall ==
    /\ AtItem("eth_call")
    /\ \E p \in ItemChoices(rev, operation, i) :
          LET prep == CallPrep(rev, abi, p)
              from == IF rev = "rev3" THEN p.walletAddress
                      ELSE IF rev = "rev4" THEN "" ELSE wallet0
          IN  /\ Begin(p)
              /\ IF prep.ok
                 THEN Send(Request(i, HelperOf(rev, "eth_call"), "eth_call",
                                   AuthOf(HelperOf(rev, "eth_call")), from, "latest",
                                   "", "", prep.data, NoTx),
                           [data |-> prep.data, signer |-> ""], inflight, Started)
                 ELSE Raise(prep.error, inflight, Started)

\* the submission of a transaction that no wallet has signed
SendRawRequestUnsigned(tx) ==
    Request(i, HelperOf(rev, "eth_sendRawTransaction"), "eth_sendRawTransaction",
            AuthOf(HelperOf(rev, "eth_sendRawTransaction")), "", "", "", "", NoData,
            Tx("", tx.nonce, tx.data, tx.to))

\* the eth_sendRawTransaction request for a signed transaction
SendRawRequest(tx) ==
    Request(i, HelperOf(rev, "eth_sendRawTransaction"), "eth_sendRawTransaction",
            AuthOf(HelperOf(rev, "eth_sendRawTransaction")), "", "", "", "", NoData, tx)

\* rev1 signs with nonce 0 and submits; rev2 and rev3 ask for the nonce first;
\* rev4 leaves nonce, signature and submission to the contract binding
StartSendRawTransaction ==
    /\ AtItem("eth_sendRawTransaction")
    /\ \E p \in ItemChoices(rev, operation, i) :
          LET prep == SendPrep(rev, abi, p)
              loc  == [data |-> prep.data, signer |-> SignerOf(p)]
              via  == IF rev = "rev3" THEN "getNonce" ELSE "ethGetTransactionCount"
          IN  /\ Begin(p)
              /\ IF ~prep.ok THEN Raise(prep.error, inflight, Started)
                 ELSE IF rev = "rev1"
                      THEN Send(SendRawRequest(Tx(SignerOf(p), Num(0), prep.data, "contract")),
                                loc, inflight, Started)
                 ELSE IF rev = "rev4"
                      THEN Send(Request(i, "provider", "eth_sendRawTransaction", "provider",
                                        "", "", "", "", prep.data,
                                        Tx(SignerOf(p), Undef, prep.data, "contract")),
                                loc, inflight, Started)
                 ELSE Send(Request(i, via, "eth_getTransactionCount", AuthOf(via), wallet0,
                                   IF rev = "rev3" THEN "latest" ELSE "pending",
                                   "", "", NoData, NoTx),
                           loc, inflight, Started)

StartGetTransactionCount ==
    /\ AtItem("eth_getTransactionCount")
    /\ \E p \in ItemChoices(rev, operation, i) :
          /\ Begin(p)
          /\ Send(Request(i, HelperOf(rev, "eth_getTransactionCount"), "eth_getTransactionCount",
                          AuthOf(HelperOf(rev, "eth_getTransactionCount")),
                          IF rev = "rev2" THEN wallet0 ELSE p.walletAddress,
                          IF rev = "rev2" THEN "pending" ELSE p.transactionTag,
                          "", "", NoData, NoTx),
                  NoLocal, inflight, Started)

StartEstimateGas ==
    /\ AtItem("eth_estimateGas")
    /\ Begin(NoItem)
    /\ Send(Request(i, "provider", "eth_gasPrice", "provider", "", "", "", "", NoData, NoTx),
            NoLocal, inflight, Started)

\* the request whose response arrives
Awaited(rpc) == {req \in inflight : pc = "await" /\ req.rpc = rpc}

\* the bodies a numeric RPC may be answered with; the provider turns an
\* error payload into a rejection
NumericBodies(via) ==
    {ResultBody(h) : h \in HexStrings} \cup (IF via = "provider" THEN {} ELSE {ErrorBody})

\* the bodies eth_getTransactionCount is answered with: the examples only,
\* as its requests already vary in address and tag
CountBodies(via) ==
    {ResultBody(h) : h \in HexStrings \cap HexExamples}
        \cup (IF via = "provider" THEN {} ELSE {ErrorBody})

\* the bodies of the other RPCs
PlainBodies(via) ==
    {ResultBody(<<>>)} \cup (IF via = "provider" THEN {} ELSE {ErrorBody})

\* hist once the body has arrived: an error payload is a failed request
Answered(body) ==
    IF body.kind = "error"
    THEN [hist EXCEPT !.failure = "errorPayload", !.failedAt = Len(httpLog),
                      !.answer = [item |-> i, body |-> body]]
    ELSE [hist EXCEPT !.answer = [item |-> i, body |-> body]]

Field(key, v) == [key |-> key, val |-> v]

\* the promise of the request is rejected: the helper's catch clause rethrows
RequestRejected ==
    /\ pc = "await"
    /\ \E req \in inflight :
          Raise(Thrown(req.via, TransportError), inflight \ {req},
                [hist EXCEPT !.failure = "rejected", !.failedAt = Len(httpLog)])
    /\ UNCHANGED <<item, fixed>>

ResumeBlockNumber ==
    /\ \E req \in Awaited("eth_blockNumber") : \E body \in NumericBodies(req.via) :
          Finish(Single(IF rev = "rev4"
                        THEN Field("blockNumber", Num(ParseHex(body.hex, 0)))
                        ELSE Field("decodedData", parseInt16(body))),
                 inflight \ {req}, Answered(body))
    /\ UNCHANGED <<item, fixed>>

\* responseData = response: the body itself with its result member, or the
\* provider's block or null
ResumeGetBlockByNumber ==
    /\ \E req \in Awaited("eth_getBlockByNumber") :
          \E body \in IF req.via = "provider"
                      THEN {ResultBody(<<>>), Body("null", <<>>, 0)}
                      ELSE {ResultBody(<<>>), ErrorBody, ArrayBody(0), ArrayBody(2)} :
             Finish(CASE body.kind = "array" ->
                            Many([j \in 1..body.n |-> Field("", Val("obj", j, "element"))])
                      [] body.kind = "null" -> Single(Field("", Null))
                      [] body.kind = "error" -> Single(Field("", Obj("errorResponse")))
                      [] OTHER -> Single(Field("", Obj(IF rev = "rev4" THEN "block" ELSE "response"))),
                    inflight \ {req}, Answered(body))
    /\ UNCHANGED <<item, fixed>>

\* iface.decodeFunctionResult(method, response.result) throws without a result;
\* rev4 decodes only when the returned value has a result member, which the
\* values of the contract binding do not have
ResumeCall ==
    /\ \E req \in Awaited("eth_call") : \E body \in PlainBodies(req.via) :
          IF rev = "rev4"
          THEN Finish(Single(Field("decodedData", Null)), inflight \ {req}, Answered(body))
          ELSE IF body.kind = "error"
               THEN Raise(EthersError("decode"), inflight \ {req}, Answered(body))
               ELSE Finish(Single(Field("decodedData", Obj("decoded"))),
                           inflight \ {req}, Answered(body))
    /\ UNCHANGED <<item, fixed>>

\* const nonce = await ethGetTransactionCount.call(...) or getNonce.call(...):
\* the awaited body itself, an object; n tells the count its result encodes
NonceOf(body) ==
    IF body.kind = "error" THEN Obj("errorResponse")
    ELSE Val("obj", ParseHex(body.hex, 0), "response")

\* nonce = the awaited response itself; the transaction is signed and submitted
ResumeNonce ==
    /\ operation = "eth_sendRawTransaction"
    /\ \E req \in Awaited("eth_getTransactionCount") : \E body \in CountBodies(req.via) :
          LET tx == Tx(local.signer, NonceOf(body), local.data, "contract")
          IN  \E signing \in SignOutcomes(tx) :
                 IF signing = "throws"
                 THEN Raise(EthersError("invalid nonce"), inflight \ {req}, Answered(body))
                 ELSE Send(SendRawRequest(tx), local, inflight \ {req}, Answered(body))
    /\ UNCHANGED <<item, fixed>>

\* rev1 drops the response and leaves responseData as it was
ResumeSendRawTransaction ==
    /\ \E req \in Awaited("eth_sendRawTransaction") : \E body \in PlainBodies(req.via) :
          CASE rev = "rev1" -> Finish(responseData, inflight \ {req}, Answered(body))
            [] rev = "rev4" -> Finish(Single(Field("response", Obj("transactionResponse"))),
                                      inflight \ {req}, Answered(body))
            [] OTHER -> IF body.kind = "error"
                        THEN Raise(EthersError("decode"), inflight \ {req}, Answered(body))
                        ELSE Finish(Single(Field("decodedData", Obj("decoded"))),
                                    inflight \ {req}, Answered(body))
    /\ UNCHANGED <<item, fixed>>

ResumeGetTransactionCount ==
    /\ operation = "eth_getTransactionCount"
    /\ \E req \in Awaited("eth_getTransactionCount") : \E body \in CountBodies(req.via) :
          Finish(Single(IF rev = "rev4"
                        THEN Field("transactionCount", Num(ParseHex(body.hex, 0)))
                        ELSE Field("decodedData", parseInt16(body))),
                 inflight \ {req}, Answered(body))
    /\ UNCHANGED <<item, fixed>>

\* responseData = { gasPrice: ethers.utils.formatUnits(gasPrice, 'gwei') }
ResumeEstimateGas ==
    /\ \E req \in Awaited("eth_gasPrice") : \E body \in PlainBodies(req.via) :
          Finish(Single(Field("gasPrice", Obj("gwei"))), inflight \ {req}, Answered(body))
    /\ UNCHANGED <<item, fixed>>

Next ==
    \/ Execute
    \/ Return
    \/ StartBlockNumber
    \/ StartGetBlockByNumber
    \/ StartCall
    \/ StartSendRawTransaction
    \/ StartGetTransactionCount
    \/ StartEstimateGas
    \/ RequestRejected
    \/ ResumeBlockNumber
    \/ ResumeGetBlockByNumber
    \/ ResumeCall
    \/ ResumeNonce
    \/ ResumeSendRawTransaction
    \/ ResumeGetTransactionCount
    \/ ResumeEstimateGas

Spec == Init /\ [][Next]_vars

\* the steps execute takes by itself, between two awaits
Local ==
    \/ Execute
    \/ Return
    \/ StartBlockNumber
    \/ StartGetBlockByNumber
    \/ StartCall
    \/ StartSendRawTransaction
    \/ StartGetTransactionCount
    \/ StartEstimateGas

\* the steps taken when the promise of the outstanding request settles
Settled ==
    \/ RequestRejected
    \/ ResumeBlockNumber
    \/ ResumeGetBlockByNumber
    \/ ResumeCall
    \/ ResumeNonce
    \/ ResumeSendRawTransaction
    \/ ResumeGetTransactionCount
    \/ ResumeEstimateGas

\* the invocations against one endpoint
InitLive == Init /\ ETHNetwork = "mainnet" /\ projectID = "p1"

\* execute under the run-to-completion scheduling of the event loop, which
\* runs the code between two awaits once it can run, and with a transport
\* that settles every request it was handed
SpecLive == InitLive /\ [][Next]_vars /\ WF_vars(Local) /\ WF_vars(Settled)

\* ------------------------------------------------------------------------
\* Properties of execute()
\* ------------------------------------------------------------------------

\* every JSON value a parameter text of execute can spell
ExecValues == ValuesOfDepth(Literals, 1, MaxABI)

\* the texts the grammar gives them, and those of the arrays among them
ExecTexts == {Ser(v) : v \in ExecValues}

ExecArrayTexts == {Ser(v) : v \in {a \in ExecValues : a.kind = "array"}}

\* the text is JSON according to the grammar
IsJSONText(t) == t \in ExecTexts

\* the positions in the text of an ABI of the function entries named m
EntriesNamed(t, m) ==
    {j \in 1..Len(t) : EntryOf(t[j]).type = "function" /\ EntryOf(t[j]).name = m}

Raises(e) == outcome.status = "raised" /\ outcome.error = e

\* the requests sent for item k
RequestsOf(k) == {n \in 1..Len(httpLog) : httpLog[n].item = k}

\* C2: when the host returns no credentials, the invocation fails before any
\* HTTP request is attempted: the transport records zero calls.
C2_NoRequestWithoutCredentials ==
    ~creds => httpLog = <<>>

\* C3: an eth_call item whose contractABI text is no JSON fails with
\* 'Invalid JSON' and no request is sent for it.
C3_MalformedABICall ==
    (operation = "eth_call" /\ hist.started > 0 /\ ~IsJSONText(abi.text)) =>
        /\ Raises(InvalidJSON)
        /\ RequestsOf(hist.started - 1) = {}
        /\ hist.started = 1

\* the first item of an eth_call with a truncated ABI was started, credentials present
C3_Witness ==
    /\ operation = "eth_call"
    /\ creds
    /\ hist.started = 1
    /\ abi.text = <<"[", "fooView">>
    /\ Raises(InvalidJSON)
    /\ httpLog = <<>>

\* the started item has credentials, a usable wallet, an ABI that is a JSON
\* array and a method the ABI declares once: nothing but its inputs can fail it
OnlyInputsAtFault ==
    /\ creds
    /\ item.walletOK
    /\ abi.text \in ExecArrayTexts
    /\ Cardinality(EntriesNamed(abi.text, item.contractMethod)) = 1

\* C4: in eth_call and eth_sendRawTransaction, contractInputs text that is no
\* JSON fails the item with 'Invalid JSON' before any request, as a malformed
\* ABI does.
C4_MalformedInputsRejected ==
    (/\ operation \in {"eth_call", "eth_sendRawTransaction"}
     /\ hist.started > 0
     /\ item.contractInputs.text # <<>>
     /\ ~IsJSONText(item.contractInputs.text)
     /\ OnlyInputsAtFault) =>
        /\ Raises(InvalidJSON)
        /\ RequestsOf(hist.started - 1) = {}

\* C5: a failure aborts the invocation at once: the step that raises sends
\* nothing and appends nothing, execute is over and never returns a
\* collection, and no request or record exists for an item after the failed one.
C5_FailureAborts ==
    /\ [](outcome.status = "raised" =>
            /\ pc = "done"
            /\ \A n \in 1..Len(httpLog) : httpLog[n].item <= i
            /\ \A n \in 1..Len(returnData) : returnData[n].item < i
            /\ hist.started <= i + 1)
    /\ [][outcome'.status = "raised" =>
            /\ httpLog' = httpLog
            /\ returnData' = returnData
            /\ (outcome.status = "raised" => outcome' = outcome /\ hist' = hist)]_vars

\* the second of two items failed after its request, with the first item's record appended
C5_Witness ==
    /\ outcome.status = "raised"
    /\ length = 2
    /\ i = 1
    /\ Len(returnData) = 1
    /\ Len(httpLog) = 2

\* the first of two items failed: the second is never started
C5_WitnessFirst ==
    /\ outcome.status = "raised"
    /\ length = 2
    /\ i = 0
    /\ Len(httpLog) = 1

\* C6: items are processed strictly in sequence: at most one request is
\* outstanding, a request is sent only when none is outstanding and the
\* records of all earlier items are appended, and requests follow item order.
C6_Sequential ==
    /\ Cardinality(inflight) <= 1
    /\ \A n \in 1..Len(httpLog) :
          /\ httpLog[n].pending = 0
          /\ httpLog[n].pushed = httpLog[n].item
          /\ n > 1 => httpLog[n - 1].item <= httpLog[n].item

\* the request of the second item is outstanding after the first item's round trip
C6_Witness ==
    /\ Len(httpLog) = 2
    /\ httpLog[1].item = 0
    /\ httpLog[2].item = 1
    /\ httpLog[2] \in inflight
    /\ Len(returnData) >= 1

\* C7: with credentials present, a transport or RPC-level error of a request
\* reaches the caller wrapped, with the triggering error attached, and
\* nothing is sent after the failure.
C7_FailuresWrappedNotRetried ==
    (creds /\ hist.failure # "") =>
        /\ outcome.status = "raised"
        /\ outcome.error.kind = "NodeApiError"
        /\ outcome.error.cause = TransportError.kind
        /\ Len(httpLog) = hist.failedAt

RECURSIVE Flat(_, _)
\* the records of the items from k on, item by item, arrays element by element
Flat(datas, k) ==
    IF datas = <<>> THEN <<>>
    ELSE [j \in 1..Len(Head(datas).elems) |->
              Rec(k, Head(datas).elems[j].key, Head(datas).elems[j].val)]
         \o Flat(Tail(datas), k + 1)

\* C8: the output holds, in input order, one record per item whose response
\* is no sequence and every element of a response that is one; without
\* sequences it has as many records as there are items.
C8_FlatOutput ==
    outcome.status = "returned" =>
        /\ Len(hist.assigned) = length
        /\ returnData = Flat(hist.assigned, 0)
        /\ \A k \in 1..length :
              ~hist.assigned[k].isArray =>
                 Cardinality({n \in 1..Len(returnData) : returnData[n].item = k - 1}) = 1
        /\ \A n \in 1..Len(returnData) : returnData[n].key # "nested"
        /\ (\A k \in 1..length : ~hist.assigned[k].isArray) => Len(returnData) = length

\* two items were returned, the first answered with an array of two elements
C8_Witness ==
    /\ outcome.status = "returned"
    /\ length = 2
    /\ hist.assigned[1].isArray
    /\ Len(hist.assigned[1].elems) = 2
    /\ ~hist.assigned[2].isArray
    /\ Len(returnData) = 3

\* ------------------------------------------------------------------------
\* Properties of the operations of execute()
\* ------------------------------------------------------------------------

RECURSIVE Pow16(_)
\* 16 to the power n
Pow16(n) == IF n = 0 THEN 1 ELSE 16 * Pow16(n - 1)

RECURSIVE PlaceSum(_, _)
\* the digits up to position k, each weighted by the place it stands at
PlaceSum(ds, k) ==
    IF k = 0 THEN 0 ELSE HexValue(ds[k]) * Pow16(Len(ds) - k) + PlaceSum(ds, k - 1)

\* the integer a string of hexadecimal digits encodes
HexNumber(ds) == PlaceSum(ds, Len(ds))

\* item k has just been completed with the response kept in hist.answer
JustAnswered(k) ==
    /\ pc = "loop"
    /\ i = k + 1
    /\ hist.answer.item = k
    /\ returnData # <<>>

\* C13: for eth_blockNumber and eth_getTransactionCount the record emitted
\* for an item holds the integer that the hexadecimal string in the result
\* field of the item's response encodes.
C13_HexDecoded ==
    \A k \in 0..(length - 1) :
        (/\ operation \in {"eth_blockNumber", "eth_getTransactionCount"}
         /\ JustAnswered(k)
         /\ hist.answer.body.kind = "result") =>
            /\ returnData[Len(returnData)].item = k
            /\ returnData[Len(returnData)].val = Num(HexNumber(hist.answer.body.hex))

\* eth_getTransactionCount decoded the result 0x2a of its second item to 42
C13_Witness ==
    /\ operation = "eth_getTransactionCount"
    /\ rev = "rev2"
    /\ JustAnswered(1)
    /\ hist.answer.body = ResultBody(<<"2", "a">>)
    /\ returnData[2] = Rec(1, "decodedData", Num(42))

\* eth_blockNumber decoded the result 0x10 to 16
C13_WitnessBlockNumber ==
    /\ operation = "eth_blockNumber"
    /\ JustAnswered(0)
    /\ hist.answer.body = ResultBody(<<"1", "0">>)
    /\ returnData[1] = Rec(0, "decodedData", Num(16))

\* C14: the eth_getTransactionCount request of an item carries the wallet
\* address the user supplied for that item and, where the node has a tag
\* parameter, the tag supplied for that item.
C14_TransactionCountParams ==
    \A req \in inflight :
        (operation = "eth_getTransactionCount" /\ req.rpc = "eth_getTransactionCount") =>
            /\ req.item = i
            /\ req.address = item.walletAddress
            /\ item.transactionTag # "" => req.tag = item.transactionTag

\* C15: an eth_getBlockByNumber item sends one request whose block number
\* and transaction-details flag are the item's, and on a response with a
\* result the record emitted for the item is the block that result holds.
C15_BlockByNumber ==
    operation = "eth_getBlockByNumber" =>
        /\ \A req \in inflight :
              /\ req.rpc = "eth_getBlockByNumber"
              /\ req.item = i
              /\ req.block = item.blockNumber
              /\ req.details = item.showTransactionDetails
              /\ Cardinality(RequestsOf(i)) = 1
        /\ \A k \in 0..(length - 1) :
              (JustAnswered(k) /\ hist.answer.body.kind = "result") =>
                 /\ returnData[Len(returnData)].item = k
                 /\ returnData[Len(returnData)].val = Obj("block")

\* the JSON-RPC methods an operation invokes
MethodsOf(op) ==
    CASE op = "eth_sendRawTransaction" -> {"eth_getTransactionCount", "eth_sendRawTransaction"}
      [] op = "eth_estimateGas" -> {"eth_gasPrice"}
      [] OTHER -> {op}

\* C16: every request sent in direct mode is a POST to
\* https://<network>.infura.io/v3/<projectId> with the invocation's network
\* and project id, and its body has id 1, jsonrpc "2.0", a method of the
\* operation and an array of params.
C16_RequestEnvelope ==
    \A n \in 1..Len(httpLog) :
        httpLog[n].via # "provider" =>
            /\ httpLog[n].verb = "POST"
            /\ httpLog[n].uri = <<"https://", ETHNetwork, ".infura.io/v3/", projectID>>
            /\ httpLog[n].id = 1
            /\ httpLog[n].jsonrpc = "2.0"
            /\ httpLog[n].rpc \in MethodsOf(operation)
            /\ DOMAIN httpLog[n].params = 1..Len(httpLog[n].params)

\* both requests of a raw transaction went to the goerli endpoint of project p2
C16_Witness ==
    /\ rev = "rev2"
    /\ ETHNetwork = "goerli"
    /\ projectID = "p2"
    /\ Len(httpLog) = 2
    /\ httpLog[1].rpc = "eth_getTransactionCount"
    /\ httpLog[2].rpc = "eth_sendRawTransaction"
    /\ httpLog[2].uri = <<"https://", "goerli", ".infura.io/v3/", "p2">>

\* the inputs of the method the started item names, as the ABI declares them
DeclaredInputs ==
    LET j == CHOOSE j \in EntriesNamed(abi.text, item.contractMethod) : TRUE
    IN  EntryOf(abi.text[j]).inputs

\* C17: an eth_call or eth_sendRawTransaction item whose contractInputs is
\* empty invokes its method with no arguments: a method without inputs is
\* encoded and its request sent, and 'Invalid JSON' is never raised for it.
C17_AbsentInputsDefault ==
    (/\ operation \in {"eth_call", "eth_sendRawTransaction"}
     /\ hist.started > 0
     /\ item.contractInputs.text = <<>>
     /\ OnlyInputsAtFault) =>
        /\ ~Raises(InvalidJSON)
        /\ ~Raises(TypeError)
        /\ DeclaredInputs = <<>> =>
              /\ RequestsOf(hist.started - 1) # {}
              /\ \A n \in RequestsOf(hist.started - 1) :
                    /\ httpLog[n].rpc = "eth_call" =>
                          httpLog[n].data = CallData(item.contractMethod, 0)
                    /\ httpLog[n].rpc = "eth_sendRawTransaction" =>
                          httpLog[n].tx.data = CallData(item.contractMethod, 0)
        /\ DeclaredInputs # <<>> => RequestsOf(hist.started - 1) = {}

\* foo() was called with the default '' for contractInputs and its request sent
C17_Witness ==
    /\ operation = "eth_call"
    /\ rev = "rev2"
    /\ creds
    /\ hist.started = 1
    /\ item.contractMethod = "foo"
    /\ item.contractInputs.text = <<>>
    /\ Len(httpLog) = 1
    /\ httpLog[1].data = CallData("foo", 0)

\* a raw transaction calling foo() with no contractInputs was signed and submitted
C17_WitnessSend ==
    /\ operation = "eth_sendRawTransaction"
    /\ rev = "rev3"
    /\ item.contractInputs.text = <<>>
    /\ Len(httpLog) = 2
    /\ httpLog[2].tx.data = CallData("foo", 0)

\* C18: operation, network and project id are fixed for the invocation: they
\* never change, every request of every item invokes a method of that one
\* operation, and all requests go to the one endpoint built from them.
C18_OneOperationPerInvocation ==
    /\ [](\A n \in 1..Len(httpLog) :
            /\ httpLog[n].rpc \in MethodsOf(operation)
            /\ httpLog[n].uri[2] = ETHNetwork
            /\ httpLog[n].uri[4] = projectID
            /\ \A m \in 1..Len(httpLog) : httpLog[m].uri = httpLog[n].uri)
    /\ [][/\ operation' = operation
           /\ ETHNetwork' = ETHNetwork
           /\ projectID' = projectID]_vars

\* two items of one invocation were sent to the goerli endpoint, one after the other
C18_Witness ==
    /\ ETHNetwork = "goerli"
    /\ operation = "eth_getBlockByNumber"
    /\ Len(httpLog) = 2
    /\ httpLog[1].item = 0
    /\ httpLog[2].item = 1
    /\ httpLog[1].uri = httpLog[2].uri
    /\ httpLog[1].rpc = httpLog[2].rpc

\* the records an item yields, from the revision, the operation and the last
\* response to the item's own requests alone
RecordsFor(k, body) ==
    CASE operation = "eth_blockNumber" ->
            <<Rec(k, IF rev = "rev4" THEN "blockNumber" ELSE "decodedData",
                  IF body.kind = "result" THEN Num(HexNumber(body.hex)) ELSE NaN)>>
      [] operation = "eth_getTransactionCount" ->
            <<Rec(k, IF rev = "rev4" THEN "transactionCount" ELSE "decodedData",
                  IF body.kind = "result" THEN Num(HexNumber(body.hex)) ELSE NaN)>>
      [] operation = "eth_getBlockByNumber" ->
            CASE body.kind = "array" -> [j \in 1..body.n |-> Rec(k, "", Val("obj", j, "element"))]
              [] body.kind = "null" -> <<Rec(k, "", Null)>>
              [] body.kind = "error" -> <<Rec(k, "", Obj("errorResponse"))>>
              [] OTHER -> <<Rec(k, "", Obj(IF rev = "rev4" THEN "block" ELSE "response"))>>
      [] operation = "eth_call" ->
            <<Rec(k, "decodedData", IF rev = "rev4" THEN Null ELSE Obj("decoded"))>>
      [] operation = "eth_sendRawTransaction" ->
            CASE rev = "rev1" -> <<Rec(k, "", Undef)>>
              [] rev = "rev4" -> <<Rec(k, "response", Obj("transactionResponse"))>>
              [] OTHER -> <<Rec(k, "decodedData", Obj("decoded"))>>
      [] OTHER -> <<Rec(k, "gasPrice", Obj("gwei"))>>

\* the last n records of the output
LastRecords(n) == SubSeq(returnData, Len(returnData) - n + 1, Len(returnData))

\* C19: the records appended for an item are a function of the invocation's
\* parameters and of the response to the item's own request, whatever the
\* earlier items yielded, and the records of earlier items are left as they are.
C19_NoCrossItemState ==
    /\ [](\A k \in 0..(length - 1) :
            (pc = "loop" /\ i = k + 1 /\ hist.answer.item = k) =>
                LET recs == RecordsFor(k, hist.answer.body) IN
                /\ Len(returnData) >= Len(recs)
                /\ LastRecords(Len(recs)) = recs
                /\ \A n \in 1..(Len(returnData) - Len(recs)) : returnData[n].item < k)
    /\ [][\A n \in 1..Len(returnData) :
              Len(returnData') >= n /\ returnData'[n] = returnData[n]]_vars

\* the second item decoded 0x2a after the first item had decoded 0x10
C19_Witness ==
    /\ operation = "eth_blockNumber"
    /\ rev = "rev3"
    /\ pc = "loop"
    /\ i = 2
    /\ returnData = <<Rec(0, "decodedData", Num(16)), Rec(1, "decodedData", Num(42))>>

\* the texts of a request other than its authentication
RequestTexts(r) ==
    {r.uri[j] : j \in DOMAIN r.uri} \cup {r.params[j] : j \in DOMAIN r.params}
        \cup {r.verb, r.jsonrpc, r.rpc, r.address, r.tag, r.block, r.details,
               r.data.method, r.tx.signer, r.tx.to, r.tx.data.method, r.tx.nonce.s}

\* C20: the project secret travels only as the authentication of a request:
\* it is in no request URI, no request body and no output record, and the
\* credentials are never modified.
C20_SecretNotLeaked ==
    /\ [](\A n \in 1..Len(httpLog) :
            /\ projectSecret \notin RequestTexts(httpLog[n])
            /\ httpLog[n].secret # "" =>
                  /\ httpLog[n].secret = projectSecret
                  /\ httpLog[n].auth \in {"header", "basic", "provider"})
    /\ [](\A m \in 1..Len(returnData) :
            /\ returnData[m].key # projectSecret
            /\ returnData[m].val.s # projectSecret)
    /\ [][creds' = creds]_vars

\* a request authenticated by header was answered and its record appended
C20_Witness ==
    /\ Len(httpLog) >= 1
    /\ httpLog[1].auth = "header"
    /\ httpLog[1].secret = projectSecret
    /\ Len(returnData) >= 1

\* a request authenticated by basic auth was answered and its record appended
C20_WitnessBasic ==
    /\ Len(httpLog) >= 1
    /\ httpLog[1].auth = "basic"
    /\ httpLog[1].secret = projectSecret
    /\ Len(returnData) >= 1

\* ------------------------------------------------------------------------
\* Properties of eth_sendRawTransaction and of the control flow of execute()
\* ------------------------------------------------------------------------

\* the item being processed is an eth_sendRawTransaction item that has begun
SendItem == operation = "eth_sendRawTransaction" /\ hist.started > 0

\* the submissions in the log
Submissions == {n \in 1..Len(httpLog) : httpLog[n].rpc = "eth_sendRawTransaction"}

\* C21: the signer of a submitted transaction is the wallet of the mnemonic
\* when accessWalletByMnemonic is set and the wallet of the private key
\* otherwise; with a malformed key or mnemonic the invocation fails with the
\* error of the signing library itself, not wrapped and not replaced, and no
\* request is sent for the item.
C21_SignerAndSigningError ==
    /\ \A req \in inflight :
          req.rpc = "eth_sendRawTransaction" =>
              req.tx.signer = (IF item.accessWalletByMnemonic
                               THEN "mnemonicWallet" ELSE "keyWallet")
    /\ SendItem /\ ~item.walletOK =>
          /\ Raises(SigningError)
          /\ \A n \in 1..Len(httpLog) : httpLog[n].item < hist.started - 1

\* a second item with a malformed mnemonic has failed the invocation
C21_Witness ==
    /\ SendItem /\ ~item.walletOK /\ item.accessWalletByMnemonic
    /\ hist.started = 2
    /\ Raises(SigningError)

\* a transaction signed by the wallet of a mnemonic is being submitted
C21_WitnessMnemonic ==
    /\ pc = "await" /\ item.accessWalletByMnemonic
    /\ \E req \in inflight : req.rpc = "eth_sendRawTransaction" /\ req.tx.signer = "mnemonicWallet"

\* C22: execute is suspended exactly while a request is outstanding, and only
\* the settling of that request lets it go on: no step starts a later item
\* while the request is outstanding.  When every request is settled, execute
\* eventually returns or raises.
C22_SuspendedOnlyOnRequests ==
    /\ [](pc = "await" <=> inflight # {})
    /\ [][pc = "await" => /\ \E req \in inflight : req \notin inflight'
                          /\ ~ENABLED Local]_vars
    /\ <>(pc = "done")

\* two items were awaited and execute returned
C22_Witness ==
    /\ pc = "done" /\ outcome.status = "returned"
    /\ length = 2 /\ Len(httpLog) >= 2

\* a request is outstanding and the next item has not been started
C22_WitnessSuspended ==
    /\ pc = "await" /\ inflight # {}
    /\ hist.started = 1 /\ length = 2

\* C23: in the revisions that send the requests themselves, two transactions
\* submitted in one invocation by the same wallet carry strictly increasing
\* nonces, the later item the larger one.  An object used as nonce counts as
\* the number its result encodes.
C23_NoncesIncrease ==
    rev # "rev4" =>
        \A n \in Submissions : \A m \in Submissions :
            n < m /\ httpLog[n].tx.signer = httpLog[m].tx.signer =>
                httpLog[n].tx.nonce.n < httpLog[m].tx.nonce.n

\* C24: the nonce of a transaction being submitted is the integer that the
\* result of the eth_getTransactionCount response of the same item encodes in
\* hexadecimal.
C24_NonceIsCount ==
    \A req \in inflight :
        /\ req.rpc = "eth_sendRawTransaction"
        /\ hist.answer.item = req.item
        /\ hist.answer.body.kind = "result"
        => req.tx.nonce = Num(ParseHex(hist.answer.body.hex, 0))

\* C25: in the revisions that send the requests themselves, a submission is
\* the request right after the eth_getTransactionCount request of the same
\* item, an item that was completed has sent exactly these two requests, and
\* a rejected eth_getTransactionCount request is the last request of all.
C25_TwoRequestsInOrder ==
    rev # "rev4" /\ operation = "eth_sendRawTransaction" =>
        /\ \A n \in Submissions :
              /\ n > 1
              /\ httpLog[n - 1].rpc = "eth_getTransactionCount"
              /\ httpLog[n - 1].item = httpLog[n].item
        /\ \A k \in 0..(i - 1) : Cardinality(RequestsOf(k)) = 2
        /\ \A n \in 1..Len(httpLog) :
              /\ httpLog[n].rpc = "eth_getTransactionCount"
              /\ hist.failure = "rejected" /\ hist.failedAt = n
              => n = Len(httpLog)

\* C26: only the eth_sendRawTransaction operation submits transactions; an
\* eth_call item builds no wallet and sends eth_call requests only, none of
\* them carrying a transaction.  Every submission carries the transaction
\* signed for its item: signed by a wallet, and while it is outstanding by
\* the wallet of the item over the call data encoded for the item; a helper
\* passes it as the only parameter.
C26_ReadsDoNotSubmit ==
    /\ Submissions # {} => operation = "eth_sendRawTransaction"
    /\ operation = "eth_call" =>
          /\ local.signer = ""
          /\ \A n \in 1..Len(httpLog) :
                httpLog[n].rpc = "eth_call" /\ httpLog[n].tx = NoTx
    /\ \A n \in Submissions :
          /\ httpLog[n].tx.signer \in {"mnemonicWallet", "keyWallet"}
          /\ httpLog[n].via # "provider" => httpLog[n].params = <<"signedTransaction">>
    /\ \A req \in inflight :
          req.rpc = "eth_sendRawTransaction" =>
              /\ req.tx.signer = local.signer
              /\ req.tx.data = local.data
              /\ req.item = i

\* the signed transaction of the second item is being submitted after its
\* count was answered
C26_Witness ==
    /\ rev = "rev2" /\ pc = "await" /\ i = 1
    /\ \E req \in inflight :
          /\ req.rpc = "eth_sendRawTransaction"
          /\ req.tx.signer = "keyWallet"
          /\ req.tx.data = CallData("set", 2)
    /\ Len(httpLog) = 4

\* an eth_call request is outstanding
C26_WitnessCall ==
    /\ operation = "eth_call" /\ pc = "await"
    /\ \E req \in inflight : req.rpc = "eth_call" /\ req.data = CallData("foo", 0)

\* C27: in the revisions that send the requests themselves, the first
\* eth_call item with a malformed contractABI fails with 'Invalid JSON' and
\* without a request, with or without credentials; with a call that can be
\* encoded and no credentials it fails with the missing-credentials error
\* and without a request.
C27_ValidationBeforeCredentials ==
    rev # "rev4" /\ operation = "eth_call" /\ hist.started = 1 =>
        /\ ~IsJSONText(abi.text) => Raises(InvalidJSON) /\ httpLog = <<>>
        /\ ~creds /\ CallPrep(rev, abi, item).ok =>
              /\ Raises(Thrown(HelperOf(rev, "eth_call"), NoCredentials))
              /\ httpLog = <<>>

\* C28: every failure of infuraApiRequest leaves it as a NodeApiError that
\* wraps the original error: the rejection of its request, and the missing
\* credentials it looked up, for which no request is sent at all.  The
\* NodeOperationError of the missing credentials never leaves infuraApiRequest
\* as it is.
C28_OneWrappedKind ==
    /\ hist.failure = "rejected" /\ httpLog[hist.failedAt].via = "infuraApiRequest" =>
          Raises(NodeApiError(TransportError))
    /\ (rev = "rev3" /\ operation # "eth_sendRawTransaction" /\ ~creds /\ hist.readCreds) =>
          /\ Raises(NodeApiError(NoCredentials))
          /\ outcome.error.cause = NoCredentials.kind
          /\ httpLog = <<>>
    /\ Raises(NoCredentials) =>
          \/ hist.started > 0 /\ HelperOf(rev, operation) # "infuraApiRequest"
          \/ rev = "rev3" /\ operation = "eth_sendRawTransaction"

\* infuraApiRequest found no credentials for eth_blockNumber
C28_Witness ==
    /\ rev = "rev3" /\ operation = "eth_blockNumber" /\ ~creds
    /\ Raises(NodeApiError(NoCredentials))
    /\ httpLog = <<>>

\* the request of infuraApiRequest for the second item was rejected
C28_WitnessTransport ==
    /\ hist.failure = "rejected" /\ hist.failedAt = 2
    /\ httpLog[2].via = "infuraApiRequest"
    /\ Raises(NodeApiError(TransportError))

\* C29: without input items, a revision that sends the requests itself sends
\* none, does not look up the credentials and does not raise; it returns no
\* record, whether credentials are configured or not.
C29_NoItemsNoWork ==
    rev # "rev4" /\ length = 0 =>
        /\ httpLog = <<>> /\ inflight = {}
        /\ ~hist.readCreds
        /\ outcome.status # "raised"
        /\ returnData = <<>>
        /\ pc = "done" => outcome.status = "returned"

\* execute has returned for no items and without credentials
C29_Witness ==
    /\ rev = "rev2" /\ length = 0 /\ ~creds
    /\ pc = "done" /\ outcome.status = "returned"
    /\ returnData = <<>> /\ httpLog = <<>>

\* and with credentials
C29_WitnessCredentials ==
    /\ rev = "rev3" /\ length = 0 /\ creds
    /\ pc = "done" /\ outcome.status = "returned"
    /\ returnData = <<>> /\ ~hist.readCreds

\* ------------------------------------------------------------------------
\* Further properties of the option lists
\* ------------------------------------------------------------------------

\* the positions of the function entries of the listing's ABI named m
LoNamed(m) == {k \in 1..Len(LoEntries) :
                  LoEntries[k].type = "function" /\ LoEntries[k].name = m}

C11_WitnessUnknown ==
    /\ loCall = "getContractInputs"
    /\ loABI = Str(<<"[", "Bar", ",", "setXY", "]">>)
    /\ loMethod = "missing"
    /\ loOut = LoOk(<<>>)

\* C12: when the contractABI text is no JSON, the method listing and the
\* input listing both fail with 'Invalid JSON' and return no list.
C12_ListingsInvalidJSON ==
    (loCall # "none" /\ ~(loABI.present /\ IsJSONText(loABI.text))) =>
        loOut = LoError("Invalid JSON")

\* the input listing was asked for a truncated ABI
C12_Witness ==
    /\ loCall = "getContractInputs"
    /\ loABI = Str(<<"[", "fooView">>)
    /\ loOut = LoError("Invalid JSON")

\* the method listing was asked for a truncated ABI
C12_WitnessMethods ==
    /\ loCall = "getContractMethods"
    /\ loABI = Str(<<"[", "fooView", ",", "]">>)
    /\ loOut = LoError("Invalid JSON")

====
